---- MODULE Spec2Model ----
(***************************************************************************)
(* Model of Gnuastro's runtime-typed element-wise arithmetic               *)
(* (lib/data-arithmetic-other.c): type change, logical not, float-domain   *)
(* unary and binary functions and the `where' operator, acting on          *)
(* gal_data_t arrays kept in a heap of handles.                            *)
(*                                                                         *)
(* Element values are integers.  A floating point element holds an         *)
(* integer-valued number; converting to a floating point type rounds to    *)
(* the type's significand.  Each library function is a short sequence of   *)
(* steps (pc) in the order of its statements.                              *)
(***************************************************************************)
EXTENDS Integers, Sequences, FiniteSets, TLC

VARIABLES
  heap,      \* sequence of gal_data_t: handle h is heap[h]
  pre,       \* the heap when the function was entered
  fn,        \* the function that is running
  pc,        \* position inside the function
  operator,  \* its `operator' argument
  flags,     \* its `flags' argument: the set of bits that are set
  arg,       \* its gal_data_t* arguments, by parameter name
  loc,       \* its local variables, by name
  ret,       \* the returned handle (NULL until the function returns)
  err,       \* the error() that ended the process, "" when none
  acc,       \* element accesses of the loop: [h, i, rw] (i counts from 1)
  files      \* the FITS files of the fits program: the HDUs of the input
             \* file, the HDUs written to the output file, the calls made

vars ==
  <<heap, pre, fn, pc, operator, flags, arg, loc, ret, err, acc, files>>

(***************************************************************************)
(* Bounds of the model.                                                    *)
(***************************************************************************)
MaxDim == 2        \* largest length along one dimension
MaxList == 3       \* most HDUs given to the options of fits together
MaxCols == 2       \* longest list of column specifiers
MaxNumCols == 2    \* most columns of a table

NULL == 0

(***************************************************************************)
(* Types, operators and flags (the names used in the source).              *)
(***************************************************************************)
GAL_DATA_TYPE_BIT      == "bit"
GAL_DATA_TYPE_UCHAR    == "uchar"
GAL_DATA_TYPE_CHAR     == "char"
GAL_DATA_TYPE_LOGICAL  == "logical"
GAL_DATA_TYPE_USHORT   == "ushort"
GAL_DATA_TYPE_SHORT    == "short"
GAL_DATA_TYPE_UINT     == "uint"
GAL_DATA_TYPE_INT      == "int"
GAL_DATA_TYPE_ULONG    == "ulong"
GAL_DATA_TYPE_LONG     == "long"
GAL_DATA_TYPE_LONGLONG == "longlong"
GAL_DATA_TYPE_FLOAT    == "float"
GAL_DATA_TYPE_DOUBLE   == "double"

FloatTypes == {GAL_DATA_TYPE_FLOAT, GAL_DATA_TYPE_DOUBLE}

\* The eleven types every switch over a type lists.
NumericTypes ==
  {GAL_DATA_TYPE_UCHAR, GAL_DATA_TYPE_CHAR, GAL_DATA_TYPE_USHORT,
   GAL_DATA_TYPE_SHORT, GAL_DATA_TYPE_UINT, GAL_DATA_TYPE_INT,
   GAL_DATA_TYPE_ULONG, GAL_DATA_TYPE_LONG, GAL_DATA_TYPE_LONGLONG,
   GAL_DATA_TYPE_FLOAT, GAL_DATA_TYPE_DOUBLE}

AllTypes == NumericTypes \cup {GAL_DATA_TYPE_LOGICAL, GAL_DATA_TYPE_BIT}

GAL_DATA_OPERATOR_TO_UCHAR    == "to-uchar"
GAL_DATA_OPERATOR_TO_CHAR     == "to-char"
GAL_DATA_OPERATOR_TO_USHORT   == "to-ushort"
GAL_DATA_OPERATOR_TO_SHORT    == "to-short"
GAL_DATA_OPERATOR_TO_UINT     == "to-uint"
GAL_DATA_OPERATOR_TO_INT      == "to-int"
GAL_DATA_OPERATOR_TO_ULONG    == "to-ulong"
GAL_DATA_OPERATOR_TO_LONG     == "to-long"
GAL_DATA_OPERATOR_TO_LONGLONG == "to-longlong"
GAL_DATA_OPERATOR_TO_FLOAT    == "to-float"
GAL_DATA_OPERATOR_TO_DOUBLE   == "to-double"
GAL_DATA_OPERATOR_SQRT        == "sqrt"
GAL_DATA_OPERATOR_LOG         == "log"
GAL_DATA_OPERATOR_LOG10       == "log10"
GAL_DATA_OPERATOR_POW         == "pow"

CastOperators ==
  {GAL_DATA_OPERATOR_TO_UCHAR, GAL_DATA_OPERATOR_TO_CHAR,
   GAL_DATA_OPERATOR_TO_USHORT, GAL_DATA_OPERATOR_TO_SHORT,
   GAL_DATA_OPERATOR_TO_UINT, GAL_DATA_OPERATOR_TO_INT,
   GAL_DATA_OPERATOR_TO_ULONG, GAL_DATA_OPERATOR_TO_LONG,
   GAL_DATA_OPERATOR_TO_LONGLONG, GAL_DATA_OPERATOR_TO_FLOAT,
   GAL_DATA_OPERATOR_TO_DOUBLE}

\* The type each cast operator names.
NamedType(op) ==
  CASE op = GAL_DATA_OPERATOR_TO_UCHAR    -> GAL_DATA_TYPE_UCHAR
    [] op = GAL_DATA_OPERATOR_TO_CHAR     -> GAL_DATA_TYPE_CHAR
    [] op = GAL_DATA_OPERATOR_TO_USHORT   -> GAL_DATA_TYPE_USHORT
    [] op = GAL_DATA_OPERATOR_TO_SHORT    -> GAL_DATA_TYPE_SHORT
    [] op = GAL_DATA_OPERATOR_TO_UINT     -> GAL_DATA_TYPE_UINT
    [] op = GAL_DATA_OPERATOR_TO_INT      -> GAL_DATA_TYPE_INT
    [] op = GAL_DATA_OPERATOR_TO_ULONG    -> GAL_DATA_TYPE_ULONG
    [] op = GAL_DATA_OPERATOR_TO_LONG     -> GAL_DATA_TYPE_LONG
    [] op = GAL_DATA_OPERATOR_TO_LONGLONG -> GAL_DATA_TYPE_LONGLONG
    [] op = GAL_DATA_OPERATOR_TO_FLOAT    -> GAL_DATA_TYPE_FLOAT
    [] op = GAL_DATA_OPERATOR_TO_DOUBLE   -> GAL_DATA_TYPE_DOUBLE

GAL_DATA_ARITH_INPLACE == "inplace"
GAL_DATA_ARITH_FREE    == "free"
GAL_DATA_ARITH_NUMOK   == "numok"

(***************************************************************************)
(* Element values and conversions.                                         *)
(***************************************************************************)
\* sizeof one element, in bytes (LP64).
Width(t) ==
  CASE t \in {GAL_DATA_TYPE_UCHAR, GAL_DATA_TYPE_CHAR,
              GAL_DATA_TYPE_LOGICAL}                       -> 1
    [] t \in {GAL_DATA_TYPE_USHORT, GAL_DATA_TYPE_SHORT}  -> 2
    [] t \in {GAL_DATA_TYPE_UINT, GAL_DATA_TYPE_INT,
              GAL_DATA_TYPE_FLOAT}                         -> 4
    [] OTHER                                               -> 8

Abs(v) == IF v < 0 THEN 0 - v ELSE v

RECURSIVE Pow2(_)
Pow2(n) == IF n = 0 THEN 1 ELSE 2 * Pow2(n - 1)

\* The exponent e >= 0 of the spacing 2^e of floating point numbers with a
\* significand of `digits' bits around the magnitude a.
RECURSIVE Spacing(_, _, _)
Spacing(a, digits, e) ==
  IF a < Pow2(digits) THEN e ELSE Spacing(a \div 2, digits, e + 1)

\* v rounded to the nearest number with a significand of `digits' bits, ties
\* to even.  A double's 53 bits hold every integer of the model exactly.
RoundToSignificand(v, digits) ==
  IF digits > 30 \/ Abs(v) < Pow2(digits) THEN v
  ELSE LET e    == Spacing(Abs(v), digits, 0)
           unit == Pow2(e)
           q    == Abs(v) \div unit
           rem  == Abs(v) % unit
           up   == (2 * rem > unit) \/ (2 * rem = unit /\ q % 2 = 1)
           m    == (IF up THEN q + 1 ELSE q) * unit
       IN  IF v < 0 THEN 0 - m ELSE m

\* The C conversion of the value v to type t: unsigned types wrap modulo
\* 2^width, signed types wrap in two's complement, floating point types
\* round.  The 32 and 64 bit integer types hold every non-negative value of
\* the model unchanged.
Convert(v, t) ==
  CASE t = GAL_DATA_TYPE_UCHAR  -> v % 256
    [] t \in {GAL_DATA_TYPE_CHAR, GAL_DATA_TYPE_LOGICAL}
                                -> ((v + 128) % 256) - 128
    [] t = GAL_DATA_TYPE_USHORT -> v % 65536
    [] t = GAL_DATA_TYPE_SHORT  -> ((v + 32768) % 65536) - 32768
    [] t = GAL_DATA_TYPE_FLOAT  -> RoundToSignificand(v, 24)
    [] t = GAL_DATA_TYPE_DOUBLE -> RoundToSignificand(v, 53)
    [] OTHER                    -> v

\* Conversions the integers of the model can express: a negative value
\* converted to a 32 or 64 bit unsigned type is 2^32 or 2^64 larger.
CanConvert(v, t) ==
  ~ (v < 0 /\ t \in {GAL_DATA_TYPE_UINT, GAL_DATA_TYPE_ULONG})

\* Values an input array of each type is filled with, cyclically.
ValuesOf(t) ==
  CASE t = GAL_DATA_TYPE_UCHAR    -> <<0, 1, 255>>
    [] t = GAL_DATA_TYPE_CHAR     -> <<0, -1, 100>>
    [] t = GAL_DATA_TYPE_LOGICAL  -> <<0, 1>>
    [] t = GAL_DATA_TYPE_BIT      -> <<0, 1>>
    [] t = GAL_DATA_TYPE_USHORT   -> <<0, 300, 65535>>
    [] t = GAL_DATA_TYPE_SHORT    -> <<0, -300, 9>>
    [] t = GAL_DATA_TYPE_UINT     -> <<0, 16777217, 70000>>
    [] t = GAL_DATA_TYPE_INT      -> <<0, -16777217, 70000>>
    [] t = GAL_DATA_TYPE_ULONG    -> <<0, 16777217, 9>>
    [] t = GAL_DATA_TYPE_LONG     -> <<0, 16777217, -9>>
    [] t = GAL_DATA_TYPE_LONGLONG -> <<0, -16777217, 9>>
    [] t = GAL_DATA_TYPE_FLOAT    -> <<0, 2, 3>>
    [] t = GAL_DATA_TYPE_DOUBLE   -> <<0, 2, 5>>

\* An array of n elements cycling through vals, starting after k of them.
Fill(vals, k, n) == [i \in 1..n |-> vals[((i - 1 + k) % Len(vals)) + 1]]

\* What an uninitialized or out-of-bounds element may hold.
Garbage == {0, 7}

(***************************************************************************)
(* gal_data_t and the heap.                                                *)
(***************************************************************************)
RECURSIVE Product(_)
Product(s) == IF s = <<>> THEN 1 ELSE Head(s) * Product(Tail(s))

\* The dimension lists of the model: one and two dimensional, every length
\* from 0 on (a dataset with a length of 0 has no element).
Shapes ==
  {<<n>> : n \in 0..MaxDim} \cup {<<n, m>> : n \in 0..MaxDim, m \in 0..MaxDim}

\* A gal_data_t: type, ndim, dsize, size, array; `freed' counts the
\* gal_data_free calls on it.
Data(type, dsize, array) ==
  [type |-> type, ndim |-> Len(dsize), dsize |-> dsize,
   size |-> Product(dsize), array |-> array, freed |-> 0]

\* An input dataset of the caller.
Input(type, dsize, k) ==
  Data(type, dsize, Fill(ValuesOf(type), k, Product(dsize)))

\* gal_data_alloc(NULL, type, ndim, dsize, wcs, 0, minmapsize): a new
\* dataset whose array is not cleared.  The new handle is Len(h) + 1.
gal_data_alloc(h, type, dsize, g) ==
  Append(h, Data(type, dsize, [i \in 1..Product(dsize) |-> g]))

\* gal_data_copy_to_new_type(in, type): a new dataset of the given type
\* with in's dimensions and in's elements converted.
gal_data_copy_to_new_type(h, in, type) ==
  Append(h, Data(type, h[in].dsize,
                 [i \in 1..h[in].size |-> Convert(h[in].array[i], type)]))

\* gal_data_free(d)
gal_data_free(h, d) == [h EXCEPT ![d].freed = @ + 1]

\* gal_data_dsize_is_different(first, second): the two datasets differ in
\* their number of dimensions or in the length along one of them.
gal_data_dsize_is_different(h, first, second) ==
  h[first].dsize # h[second].dsize

\* gal_data_out_type(first, second): the wider of the two types.
gal_data_out_type(h, first, second) ==
  IF GAL_DATA_TYPE_DOUBLE \in {h[first].type, h[second].type}
  THEN GAL_DATA_TYPE_DOUBLE
  ELSE h[first].type

\* error(EXIT_FAILURE, ...): the process ends.
Exit(msg) ==
  /\ pc' = "exit"
  /\ err' = msg

NoArgs == [x \in {} |-> NULL]

\* The files of a function that works on none.
NoFiles == [in |-> {}, out |-> <<>>, log |-> <<>>]

\* The state every function is entered from.
Entered(f, h, op, fl, a) ==
  /\ heap = h /\ pre = h /\ fn = f /\ pc = "entry"
  /\ operator = op /\ flags = fl /\ arg = a
  /\ loc = NoArgs /\ ret = NULL /\ err = "" /\ acc = {}
  /\ files = NoFiles

(***************************************************************************)
(* data_arithmetic_change_type(data, operator, flags)                      *)
(***************************************************************************)
\* The callers' inputs: any dataset, any cast operator or another code.
CastInit ==
  \E t \in NumericTypes, d \in Shapes, k \in 0..1,
     op \in CastOperators \cup {GAL_DATA_OPERATOR_POW},
     fl \in SUBSET {GAL_DATA_ARITH_FREE} :
    Entered("change_type", <<Input(t, d, k)>>, op, fl, [data |-> 1])

\* switch(operator): the output type set for each operator.
ChangeTypeOf(op) ==
  CASE op = GAL_DATA_OPERATOR_TO_UCHAR    -> GAL_DATA_TYPE_UCHAR
    [] op = GAL_DATA_OPERATOR_TO_CHAR     -> GAL_DATA_TYPE_UCHAR
    [] op = GAL_DATA_OPERATOR_TO_USHORT   -> GAL_DATA_TYPE_USHORT
    [] op = GAL_DATA_OPERATOR_TO_SHORT    -> GAL_DATA_TYPE_SHORT
    [] op = GAL_DATA_OPERATOR_TO_UINT     -> GAL_DATA_TYPE_UINT
    [] op = GAL_DATA_OPERATOR_TO_INT      -> GAL_DATA_TYPE_INT
    [] op = GAL_DATA_OPERATOR_TO_ULONG    -> GAL_DATA_TYPE_ULONG
    [] op = GAL_DATA_OPERATOR_TO_LONG     -> GAL_DATA_TYPE_LONG
    [] op = GAL_DATA_OPERATOR_TO_LONGLONG -> GAL_DATA_TYPE_LONGLONG
    [] op = GAL_DATA_OPERATOR_TO_FLOAT    -> GAL_DATA_TYPE_FLOAT
    [] op = GAL_DATA_OPERATOR_TO_DOUBLE   -> GAL_DATA_TYPE_DOUBLE

\* Set the output type, or stop on an operator that is no cast.
ChangeTypeSetType ==
  /\ fn = "change_type" /\ pc = "entry"
  /\ IF operator \in CastOperators
     THEN /\ loc' = [type |-> ChangeTypeOf(operator)]
          /\ pc' = "copy"
          /\ err' = err
     ELSE /\ Exit("operator not recognized")
          /\ loc' = loc
  /\ UNCHANGED <<files, heap, pre, fn, operator, flags, arg, ret, acc>>

\* Copy to the new type.
ChangeTypeCopy ==
  /\ fn = "change_type" /\ pc = "copy"
  /\ \A i \in 1..heap[arg.data].size :
        CanConvert(heap[arg.data].array[i], loc.type)
  /\ heap' = gal_data_copy_to_new_type(heap, arg.data, loc.type)
  /\ loc' = [loc EXCEPT !.type = loc.type] @@ [out |-> Len(heap) + 1]
  /\ pc' = "free"
  /\ UNCHANGED <<files, pre, fn, operator, flags, arg, ret, err, acc>>

\* A variant that frees the input whatever the flags.
ChangeTypeCleanup_Always(h, fl, data) == gal_data_free(h, data)

\* Delete the input structure if the user asked for it.
ChangeTypeCleanup(h, fl, data) ==
  IF GAL_DATA_ARITH_FREE \in fl THEN gal_data_free(h, data) ELSE h

\* Free the input if asked to, and return.
ChangeTypeFree ==
  /\ fn = "change_type" /\ pc = "free"
  /\ heap' = ChangeTypeCleanup(heap, flags, arg.data)
  /\ ret' = loc.out
  /\ pc' = "done"
  /\ UNCHANGED <<files, pre, fn, operator, flags, arg, loc, err, acc>>

CastNext == ChangeTypeSetType \/ ChangeTypeCopy \/ ChangeTypeFree

SpecCast == CastInit /\ [][CastNext]_vars

(***************************************************************************)
(* Element loops.                                                          *)
(***************************************************************************)
\* Iterations of `do ... while(++p < finish)' for a pointer p that is
\* `steps' elements before `finish': the body runs once before the test.
DoWhile(steps) == IF steps < 1 THEN 1 ELSE steps

\* Elements of `width' bytes that start before the end pointer
\* `array + size': array is a pointer to void, so the sum is `size' bytes
\* (not elements) after the start of the array.
ElementsBeforeByteEnd(size, width) == (size + width - 1) \div width

\* Element i of dataset d; outside of the array the read finds g.
Elem(h, d, i, g) == IF i \in 1..h[d].size THEN h[d].array[i] ELSE g

\* One of the accesses is outside of its array.
OutOfBounds(h, accesses) ==
  \E a \in accesses : a.i \notin 1..h[a.h].size

\* Where a loop with these accesses ends.  An access outside of an array
\* is undefined: the loop may go on to the clean up (a read finds any
\* value, a write is lost to the datasets), or the process is killed.
AfterLoop(h, accesses) ==
  IF OutOfBounds(h, accesses) THEN {"free", "crash"} ELSE {"free"}

(***************************************************************************)
(* data_arithmetic_not(data, flags)                                        *)
(***************************************************************************)
\* The callers' inputs: a dataset of any type (the function has no
\* operator argument).
NotInit ==
  \E t \in AllTypes, d \in Shapes, k \in 0..1,
     fl \in SUBSET {GAL_DATA_ARITH_FREE} :
    Entered("not", <<Input(t, d, k)>>, "", fl, [data |-> 1])

\* A variant with a loop for the bit type as well.
NotTypes_WithBit == NumericTypes \cup {GAL_DATA_TYPE_LOGICAL, GAL_DATA_TYPE_BIT}

\* The types with a TYPE_CASE_FOR_NOT case.
NotTypes == NumericTypes \cup {GAL_DATA_TYPE_LOGICAL}

\* The declarations: for every type, the end pointer is
\* `data->array + data->size'.  The number of loop iterations follows.
NotIterations(h, data) ==
  DoWhile(ElementsBeforeByteEnd(h[data].size, Width(h[data].type)))

\* Allocate the output array (not cleared).
NotAlloc ==
  /\ fn = "not" /\ pc = "entry"
  /\ \E g \in Garbage :
       heap' = gal_data_alloc(heap, GAL_DATA_TYPE_UCHAR,
                              heap[arg.data].dsize, g)
  /\ loc' = [out |-> Len(heap) + 1]
  /\ pc' = "loop"
  /\ UNCHANGED <<files, pre, fn, operator, flags, arg, ret, err, acc>>

\* TYPE_CASE_FOR_NOT: do *o++ = !*IN; while(++IN<IN_FINISH);
NotArray(h, data, out) ==
  [i \in 1..h[out].size |->
     IF i <= NotIterations(h, data)
     THEN (IF h[data].array[i] = 0 THEN 1 ELSE 0)
     ELSE h[out].array[i]]

\* switch(data->type): the loop of the type, or an error.
NotLoop ==
  /\ fn = "not" /\ pc = "loop"
  /\ IF heap[arg.data].type \in NotTypes
     THEN /\ heap' = [heap EXCEPT ![loc.out].array =
                                       NotArray(heap, arg.data, loc.out)]
          /\ acc' = UNION {{[h |-> arg.data, i |-> i, rw |-> "r"],
                            [h |-> loc.out, i |-> i, rw |-> "w"]} :
                           i \in 1..NotIterations(heap, arg.data)}
          /\ pc' \in AfterLoop(heap, acc')
          /\ err' = err
     ELSE /\ Exit(IF heap[arg.data].type = GAL_DATA_TYPE_BIT
                  THEN "bit datatype not supported"
                  ELSE "type not recognized")
          /\ UNCHANGED <<heap, acc>>
  /\ UNCHANGED <<files, pre, fn, operator, flags, arg, loc, ret>>

\* Free the input if asked to, and return.
NotFree ==
  /\ fn = "not" /\ pc = "free"
  /\ heap' = IF GAL_DATA_ARITH_FREE \in flags
             THEN gal_data_free(heap, arg.data) ELSE heap
  /\ ret' = loc.out
  /\ pc' = "done"
  /\ UNCHANGED <<files, pre, fn, operator, flags, arg, loc, err, acc>>

NotNext == NotAlloc \/ NotLoop \/ NotFree

SpecNot == NotInit /\ [][NotNext]_vars

(***************************************************************************)
(* data_arithmetic_where(operator, flags, out, cond, iftrue)               *)
(***************************************************************************)
\* The type of `c ? a : b' for operands of types a and b (the usual
\* arithmetic conversions, LP64).
UsualArithmeticType(a, b) ==
  LET small == {GAL_DATA_TYPE_UCHAR, GAL_DATA_TYPE_CHAR, GAL_DATA_TYPE_LOGICAL,
                GAL_DATA_TYPE_USHORT, GAL_DATA_TYPE_SHORT}
      pa == IF a \in small THEN GAL_DATA_TYPE_INT ELSE a
      pb == IF b \in small THEN GAL_DATA_TYPE_INT ELSE b
      both == {pa, pb}
  IN  CASE GAL_DATA_TYPE_DOUBLE \in both -> GAL_DATA_TYPE_DOUBLE
        [] GAL_DATA_TYPE_FLOAT \in both -> GAL_DATA_TYPE_FLOAT
        [] both = {GAL_DATA_TYPE_ULONG, GAL_DATA_TYPE_LONGLONG}
                                         -> "ulonglong"
        [] GAL_DATA_TYPE_ULONG \in both -> GAL_DATA_TYPE_ULONG
        [] GAL_DATA_TYPE_LONGLONG \in both -> GAL_DATA_TYPE_LONGLONG
        [] GAL_DATA_TYPE_LONG \in both -> GAL_DATA_TYPE_LONG
        [] GAL_DATA_TYPE_UINT \in both -> GAL_DATA_TYPE_UINT
        [] OTHER -> GAL_DATA_TYPE_INT

\* `*o = v' for v the value of a conditional expression whose operands
\* have the types it and ot: v is converted to the expression's type and
\* then to the type of *o.
WhereAssign(v, it, ot) == Convert(Convert(v, UsualArithmeticType(it, ot)), ot)

\* The end pointer `of' is `out->array + out->size', on a pointer to void.
WhereIterations(h, out) ==
  DoWhile(ElementsBeforeByteEnd(h[out].size, Width(h[out].type)))

\* The element of iftrue that iteration i reads: `it' stays on the first
\* one when iftrue->size is 1 and advances with every iteration otherwise.
WhereIndex(h, iftrue, i) == IF h[iftrue].size = 1 THEN 1 ELSE i

\* DO_WHERE_OPERATION: *o = *c++ ? *it : *o;
WhereArray(h, out, cond, iftrue, g) ==
  [i \in 1..h[out].size |->
     IF i <= WhereIterations(h, out)
     THEN WhereAssign(IF h[cond].array[i] # 0
                      THEN Elem(h, iftrue, WhereIndex(h, iftrue, i), g)
                      ELSE h[out].array[i],
                      h[iftrue].type, h[out].type)
     ELSE h[out].array[i]]

\* The elements the loop reads and writes.
WhereAccesses(h, out, cond, iftrue, g) ==
  UNION {{[h |-> cond, i |-> i, rw |-> "r"],
          IF Elem(h, cond, i, g) # 0
          THEN [h |-> iftrue, i |-> WhereIndex(h, iftrue, i), rw |-> "r"]
          ELSE [h |-> out, i |-> i, rw |-> "r"],
          [h |-> out, i |-> i, rw |-> "w"]} :
         i \in 1..WhereIterations(h, out)}

\* Condition arrays: all zero, all non-zero, mixed.
CondValues == {<<0>>, <<1>>, <<2, 0>>}

Reverse(s) == [i \in 1..Len(s) |-> s[Len(s) + 1 - i]]

\* The callers' inputs.  out is handle 1, cond 2, iftrue 3; the operator
\* argument is not used by the function.  The condition
\* is a proper one (unsigned char, out's dimensions), or has another type,
\* or other dimensions.  Only inputs whose selected elements the model's
\* integers can convert to out's type are drawn.
WhereInit ==
  \E ot \in NotTypes, it \in NotTypes, d \in Shapes, di \in Shapes,
     fl \in SUBSET {GAL_DATA_ARITH_FREE} :
  \E c \in ({GAL_DATA_TYPE_UCHAR} \X {d} \X CondValues)
           \cup ({GAL_DATA_TYPE_CHAR} \X {d} \X {<<1>>})
           \cup ({GAL_DATA_TYPE_UCHAR} \X ({Reverse(d), <<1>>} \ {d})
                                       \X {<<1>>}) :
    LET h == <<Input(ot, d, 1),
               Data(c[1], c[2], Fill(c[3], 0, Product(c[2]))),
               Input(it, di, 1)>>
    IN  /\ \A i \in 1..Len(h[3].array) : CanConvert(h[3].array[i], ot)
        /\ Entered("where", h, "where", fl,
                   [out |-> 1, cond |-> 2, iftrue |-> 3])

\* A variant of the checks that does not look at the condition's type.
WhereCondError_NoType(h, out, cond) ==
  IF gal_data_dsize_is_different(h, out, cond)
  THEN "output and condition must be the same size"
  ELSE ""

\* The checks on the condition: the error they end in, "" when they pass.
WhereCondError(h, out, cond) ==
  IF h[cond].type # GAL_DATA_TYPE_UCHAR
  THEN "condition must be unsigned char"
  ELSE IF gal_data_dsize_is_different(h, out, cond)
  THEN "output and condition must be the same size"
  ELSE ""

\* The condition must be unsigned char and have out's dimensions.
WhereCheck ==
  /\ fn = "where" /\ pc = "entry"
  /\ IF WhereCondError(heap, arg.out, arg.cond) # ""
     THEN Exit(WhereCondError(heap, arg.out, arg.cond))
     ELSE pc' = "loop" /\ err' = err
  /\ UNCHANGED <<files, heap, pre, fn, operator, flags, arg, loc, ret, acc>>

\* switch(out->type), WHERE_OUT_SET: switch(iftrue->type), the loop.
WhereLoop ==
  /\ fn = "where" /\ pc = "loop"
  /\ IF heap[arg.out].type \notin NumericTypes
     THEN Exit("type not recognized for out") /\ UNCHANGED <<heap, acc>>
     ELSE IF heap[arg.iftrue].type \notin NumericTypes
     THEN Exit("type not recognized for iftrue") /\ UNCHANGED <<heap, acc>>
     ELSE /\ \E g \in Garbage :
               /\ CanConvert(g, heap[arg.out].type)
               /\ heap' = [heap EXCEPT ![arg.out].array =
                             WhereArray(heap, arg.out, arg.cond,
                                        arg.iftrue, g)]
               /\ acc' = WhereAccesses(heap, arg.out, arg.cond,
                                        arg.iftrue, g)
          /\ pc' \in AfterLoop(heap, acc')
          /\ err' = err
  /\ UNCHANGED <<files, pre, fn, operator, flags, arg, loc, ret>>

\* A variant of the clean up that leaves iftrue alone.
WhereCleanup_CondOnly(h, fl, cond, iftrue) ==
  IF GAL_DATA_ARITH_FREE \in fl THEN gal_data_free(h, cond) ELSE h

\* The clean up: with the free flag, cond and iftrue are freed.
WhereCleanup(h, fl, cond, iftrue) ==
  IF GAL_DATA_ARITH_FREE \in fl
  THEN gal_data_free(gal_data_free(h, cond), iftrue)
  ELSE h

\* Clean up if necessary.
WhereFree ==
  /\ fn = "where" /\ pc = "free"
  /\ heap' = WhereCleanup(heap, flags, arg.cond, arg.iftrue)
  /\ pc' = "done"
  /\ UNCHANGED <<files, pre, fn, operator, flags, arg, loc, ret, err, acc>>

WhereNext == WhereCheck \/ WhereLoop \/ WhereFree

SpecWhere == WhereInit /\ [][WhereNext]_vars

(***************************************************************************)
(* data_arithmetic_binary_function_f(operator, flags, l, r)                *)
(***************************************************************************)
\* The callers' inputs: l is handle 1 and r handle 2, each single or double
\* precision floating point or an integer type, of any dimensions; any
\* flags; the `pow' operator or one that is not binary.
BinaryInit ==
  \E lt \in FloatTypes \cup {GAL_DATA_TYPE_INT},
     rt \in FloatTypes \cup {GAL_DATA_TYPE_INT},
     dl \in Shapes, dr \in Shapes,
     op \in {GAL_DATA_OPERATOR_POW, GAL_DATA_OPERATOR_SQRT},
     fl \in SUBSET {GAL_DATA_ARITH_INPLACE, GAL_DATA_ARITH_FREE,
                    GAL_DATA_ARITH_NUMOK} :
    Entered("binary", <<Input(lt, dl, 1), Input(rt, dr, 1)>>, op, fl,
            [l |-> 1, r |-> 2])

\* Variants of the sanity check: one that has no exemption for a single
\* number, one that compares the numbers of elements.
BinarySizeMismatch_NoNumok(h, fl, l, r) ==
  gal_data_dsize_is_different(h, l, r)

BinarySizeMismatch_BySize(h, fl, l, r) ==
  /\ ~ (GAL_DATA_ARITH_NUMOK \in fl /\ (h[l].size = 1 \/ h[r].size = 1))
  /\ h[l].size # h[r].size

\* The sanity check on the input sizes: TRUE when it stops the function.
BinarySizeMismatch(h, fl, l, r) ==
  /\ ~ (GAL_DATA_ARITH_NUMOK \in fl /\ (h[l].size = 1 \/ h[r].size = 1))
  /\ gal_data_dsize_is_different(h, l, r)

\* A variant that lets the int type pass as well.
check_float_input_OrInt(h, in) ==
  h[in].type \in FloatTypes \cup {GAL_DATA_TYPE_INT}

\* check_float_input(in, operator, numstr): TRUE when the type passes.
check_float_input(h, in) == h[in].type \in FloatTypes

\* Check the sizes, then the types of the left and the right operand.
BinaryCheck ==
  /\ fn = "binary" /\ pc = "entry"
  /\ IF BinarySizeMismatch(heap, flags, arg.l, arg.r)
     THEN Exit("not the same dimension/size")
     ELSE IF ~ check_float_input(heap, arg.l)
     THEN Exit("first operand is not floating point")
     ELSE IF ~ check_float_input(heap, arg.r)
     THEN Exit("second operand is not floating point")
     ELSE pc' = "output" /\ err' = err
  /\ UNCHANGED <<files, heap, pre, fn, operator, flags, arg, loc, ret, acc>>

\* out_size = l->size > r->size ? l->size : r->size
BinaryOutSize(h, l, r) == IF h[l].size > h[r].size THEN h[l].size ELSE h[r].size

\* Variants of the choice of an in-place output: one that does not compare
\* the types, one that tries the right operand first.
BinaryInplace_NoType(h, fl, l, r, final_otype, out_size) ==
  IF GAL_DATA_ARITH_INPLACE \in fl
  THEN IF out_size = h[l].size THEN l
       ELSE IF out_size = h[r].size THEN r
       ELSE NULL
  ELSE NULL

BinaryInplace_RightFirst(h, fl, l, r, final_otype, out_size) ==
  IF GAL_DATA_ARITH_INPLACE \in fl
  THEN IF h[r].type = final_otype /\ out_size = h[r].size THEN r
       ELSE IF h[l].type = final_otype /\ out_size = h[l].size THEN l
       ELSE NULL
  ELSE NULL

\* A variant that does not compare the sizes.
BinaryInplace_NoSize(h, fl, l, r, final_otype, out_size) ==
  IF GAL_DATA_ARITH_INPLACE \in fl
  THEN IF h[l].type = final_otype THEN l
       ELSE IF h[r].type = final_otype THEN r
       ELSE NULL
  ELSE NULL

\* The input the output pointer is set to when the output is to be in
\* place, NULL when it is set to none.
BinaryInplace(h, fl, l, r, final_otype, out_size) ==
  IF GAL_DATA_ARITH_INPLACE \in fl
  THEN IF h[l].type = final_otype /\ out_size = h[l].size THEN l
       ELSE IF h[r].type = final_otype /\ out_size = h[r].size THEN r
       ELSE NULL
  ELSE NULL

\* A variant that always takes the left operand's dimensions.
BinaryAllocDsize_Left(h, l, r) == h[l].dsize

\* The dimensions an allocated output is given.
BinaryAllocDsize(h, l, r) == IF h[l].size > 1 THEN h[l].dsize ELSE h[r].dsize

\* Set the output type and size, and the output: an input, or a new
\* dataset when the output pointer was not set.
BinarySetOutput ==
  /\ fn = "binary" /\ pc = "output"
  /\ LET final_otype == gal_data_out_type(heap, arg.l, arg.r)
         out_size    == BinaryOutSize(heap, arg.l, arg.r)
         o           == BinaryInplace(heap, flags, arg.l, arg.r,
                                      final_otype, out_size)
     IN  IF o # NULL
         THEN /\ heap' = heap
              /\ loc' = [final_otype |-> final_otype,
                         out_size |-> out_size, o |-> o]
         ELSE /\ \E g \in Garbage :
                   heap' = gal_data_alloc(heap, final_otype,
                             BinaryAllocDsize(heap, arg.l, arg.r), g)
              /\ loc' = [final_otype |-> final_otype,
                         out_size |-> out_size, o |-> Len(heap) + 1]
  /\ pc' = "loop"
  /\ UNCHANGED <<files, pre, fn, operator, flags, arg, ret, err, acc>>

\* pow(x, y) for the non-negative integers of the model.
RECURSIVE Pow(_, _)
Pow(x, y) == IF y = 0 THEN 1 ELSE x * Pow(x, y - 1)

\* The elements of l and r that iteration i reads: both pointers advance
\* when the sizes are equal; else the left one stays when l->size is 1;
\* else the right one stays.
BinaryLeftIndex(h, l, r, i) ==
  IF h[l].size = h[r].size THEN i ELSE IF h[l].size = 1 THEN 1 ELSE i

BinaryRightIndex(h, l, r, i) ==
  IF h[l].size = h[r].size THEN i ELSE IF h[l].size = 1 THEN i ELSE 1

\* BINFUNC_RUN_FUNCTION from iteration i on: do *oa = OP(...) while(++oa<of)
\* with of = oa + o->size.  Every iteration reads the operands as they are
\* by then.
RECURSIVE BinaryRun(_, _, _, _, _, _)
BinaryRun(h, l, r, o, i, g) ==
  IF i > DoWhile(h[o].size) THEN h
  ELSE BinaryRun(
         [h EXCEPT ![o].array =
            [j \in DOMAIN h[o].array |->
               IF j = i
               THEN Convert(Pow(Elem(h, l, BinaryLeftIndex(h, l, r, i), g),
                                Elem(h, r, BinaryRightIndex(h, l, r, i), g)),
                            h[o].type)
               ELSE h[o].array[j]]],
         l, r, o, i + 1, g)

BinaryAccesses(h, l, r, o) ==
  UNION {{[h |-> l, i |-> BinaryLeftIndex(h, l, r, i), rw |-> "r"],
          [h |-> r, i |-> BinaryRightIndex(h, l, r, i), rw |-> "r"],
          [h |-> o, i |-> i, rw |-> "w"]} : i \in 1..DoWhile(h[o].size)}

\* switch(operator): the loop of `pow' (BINFUNC_F_OPERATOR_SET switches over
\* the types of l, r and o to reach it), or an error.
BinaryLoop ==
  /\ fn = "binary" /\ pc = "loop"
  /\ IF operator # GAL_DATA_OPERATOR_POW
     THEN Exit("operator not recognized") /\ UNCHANGED <<heap, acc>>
     ELSE IF \E x \in {arg.l, arg.r, loc.o} : heap[x].type \notin FloatTypes
     THEN Exit("type not recognized") /\ UNCHANGED <<heap, acc>>
     ELSE /\ \E g \in Garbage :
               heap' = BinaryRun(heap, arg.l, arg.r, loc.o, 1, g)
          /\ acc' = BinaryAccesses(heap, arg.l, arg.r, loc.o)
          /\ pc' \in AfterLoop(heap, acc')
          /\ err' = err
  /\ UNCHANGED <<files, pre, fn, operator, flags, arg, loc, ret>>

\* A variant that frees both inputs whichever the output is.
BinaryCleanup_Both(h, fl, l, r, o) ==
  IF GAL_DATA_ARITH_FREE \in fl
  THEN gal_data_free(gal_data_free(h, l), r)
  ELSE h

\* The clean up: with the free flag, r is freed when the output is l, l
\* when the output is r, and both when it is neither.
BinaryCleanup(h, fl, l, r, o) ==
  IF GAL_DATA_ARITH_FREE \in fl
  THEN IF o = l THEN gal_data_free(h, r)
       ELSE IF o = r THEN gal_data_free(h, l)
       ELSE gal_data_free(gal_data_free(h, l), r)
  ELSE h

\* Clean up: free the inputs that are not the output, and return.
BinaryFree ==
  /\ fn = "binary" /\ pc = "free"
  /\ heap' = BinaryCleanup(heap, flags, arg.l, arg.r, loc.o)
  /\ ret' = loc.o
  /\ pc' = "done"
  /\ UNCHANGED <<files, pre, fn, operator, flags, arg, loc, err, acc>>

BinaryNext == BinaryCheck \/ BinarySetOutput \/ BinaryLoop \/ BinaryFree

SpecBinary == BinaryInit /\ [][BinaryNext]_vars

\* The callers' inputs when the same dataset is given as l and as r.
BinaryAliasInit ==
  \E t \in FloatTypes \cup {GAL_DATA_TYPE_INT}, d \in Shapes, k \in 0..1,
     op \in {GAL_DATA_OPERATOR_POW, GAL_DATA_OPERATOR_SQRT},
     fl \in SUBSET {GAL_DATA_ARITH_INPLACE, GAL_DATA_ARITH_FREE,
                    GAL_DATA_ARITH_NUMOK} :
    Entered("binary", <<Input(t, d, k)>>, op, fl, [l |-> 1, r |-> 1])

SpecBinaryAlias == BinaryAliasInit /\ [][BinaryNext]_vars

(***************************************************************************)
(* data_arithmetic_unary_function_f(operator, flags, in)                   *)
(***************************************************************************)
\* The callers' inputs: a dataset of any type, the in-place and free
\* flags, one of the three unary operators or one that is not unary.
UnaryInit ==
  \E t \in AllTypes, d \in Shapes, k \in 0..1,
     op \in {GAL_DATA_OPERATOR_SQRT, GAL_DATA_OPERATOR_LOG,
             GAL_DATA_OPERATOR_LOG10, GAL_DATA_OPERATOR_POW},
     fl \in SUBSET {GAL_DATA_ARITH_INPLACE, GAL_DATA_ARITH_FREE} :
    Entered("unary", <<Input(t, d, k)>>, op, fl, [in |-> 1])

UnaryOperators ==
  {GAL_DATA_OPERATOR_SQRT, GAL_DATA_OPERATOR_LOG, GAL_DATA_OPERATOR_LOG10}

\* Check the input type.
UnaryCheck ==
  /\ fn = "unary" /\ pc = "entry"
  /\ IF check_float_input(heap, arg.in)
     THEN pc' = "output" /\ err' = err
     ELSE Exit("first operand is not floating point")
  /\ UNCHANGED <<files, heap, pre, fn, operator, flags, arg, loc, ret, acc>>

\* Variants of setting the output: one that always allocates, one that
\* already frees an input that is not the output.
UnaryOutput_Alloc(h, fl, in, g) ==
  gal_data_alloc(h, h[in].type, h[in].dsize, g)

UnaryOutput_FreeEarly(h, fl, in, g) ==
  IF GAL_DATA_ARITH_INPLACE \in fl THEN h
  ELSE IF GAL_DATA_ARITH_FREE \in fl
  THEN gal_data_alloc(gal_data_free(h, in), h[in].type, h[in].dsize, g)
  ELSE gal_data_alloc(h, h[in].type, h[in].dsize, g)

\* The heap once the output pointer is set: to the input for an in-place
\* output, to a new dataset of the input's type and dimensions otherwise.
UnaryOutput(h, fl, in, g) ==
  IF GAL_DATA_ARITH_INPLACE \in fl THEN h
  ELSE gal_data_alloc(h, h[in].type, h[in].dsize, g)

\* Set the output.  The output is the new dataset when one was allocated.
UnarySetOutput ==
  /\ fn = "unary" /\ pc = "output"
  /\ \E g \in Garbage :
       /\ heap' = UnaryOutput(heap, flags, arg.in, g)
       /\ loc' = [o |-> IF Len(heap') > Len(heap) THEN Len(heap') ELSE arg.in]
  /\ pc' = "loop"
  /\ UNCHANGED <<files, pre, fn, operator, flags, arg, ret, err, acc>>

\* OP(x) for the C library function OP: the value is kept as the function
\* applied to its argument.
UnaryApply(op, x) == [f |-> op, x |-> x]

\* UNIFUNC_RUN_FUNCTION from iteration i on: do *oa++ = OP(*ia++);
\* while(oa<of); with of = oa + o->size.  Every iteration reads the input
\* as it is by then.
RECURSIVE UnaryRun(_, _, _, _, _, _)
UnaryRun(h, op, in, o, i, g) ==
  IF i > DoWhile(h[o].size) THEN h
  ELSE UnaryRun(
         [h EXCEPT ![o].array =
            [j \in DOMAIN h[o].array |->
               IF j = i THEN UnaryApply(op, Elem(h, in, i, g))
               ELSE h[o].array[j]]],
         op, in, o, i + 1, g)

UnaryAccesses(h, in, o) ==
  UNION {{[h |-> in, i |-> i, rw |-> "r"], [h |-> o, i |-> i, rw |-> "w"]} :
         i \in 1..DoWhile(h[o].size)}

\* switch(operator), UNIFUNC_F_OPERATOR_DONE: switch(in->type), the loop.
UnaryLoop ==
  /\ fn = "unary" /\ pc = "loop"
  /\ IF operator \notin UnaryOperators
     THEN Exit("operator not recognized") /\ UNCHANGED <<heap, acc>>
     ELSE IF heap[arg.in].type \notin FloatTypes
     THEN Exit("type not recognized") /\ UNCHANGED <<heap, acc>>
     ELSE /\ \E g \in Garbage :
               heap' = UnaryRun(heap, operator, arg.in, loc.o, 1, g)
          /\ acc' = UnaryAccesses(heap, arg.in, loc.o)
          /\ pc' \in AfterLoop(heap, acc')
          /\ err' = err
  /\ UNCHANGED <<files, pre, fn, operator, flags, arg, loc, ret>>

\* A variant of the clean up that frees the input whichever the output is.
UnaryCleanup_Always(h, fl, in, o) ==
  IF GAL_DATA_ARITH_FREE \in fl THEN gal_data_free(h, in) ELSE h

\* The clean up: with the free flag, the input is freed when it is not the
\* output.
UnaryCleanup(h, fl, in, o) ==
  IF GAL_DATA_ARITH_FREE \in fl /\ o # in THEN gal_data_free(h, in) ELSE h

\* Clean up, and return.
UnaryFree ==
  /\ fn = "unary" /\ pc = "free"
  /\ heap' = UnaryCleanup(heap, flags, arg.in, loc.o)
  /\ ret' = loc.o
  /\ pc' = "done"
  /\ UNCHANGED <<files, pre, fn, operator, flags, arg, loc, err, acc>>

UnaryNext == UnaryCheck \/ UnarySetOutput \/ UnaryLoop \/ UnaryFree

SpecUnary == UnaryInit /\ [][UnaryNext]_vars

(***************************************************************************)
(* Every function of the file, each called on its inputs.                  *)
(***************************************************************************)
ArithInit == CastInit \/ NotInit \/ UnaryInit \/ BinaryInit \/ WhereInit

ArithNext == CastNext \/ NotNext \/ UnaryNext \/ BinaryNext \/ WhereNext

SpecArith == ArithInit /\ [][ArithNext]_vars

(***************************************************************************)
(* The fits program: fits(p), fits_hdu_copy, fits_hdu_remove,              *)
(* fits_has_error.                                                         *)
(***************************************************************************)
EXIT_SUCCESS == "EXIT_SUCCESS"
EXIT_FAILURE == "EXIT_FAILURE"

FITS_MODE_KEY == "key"
FITS_MODE_HDU == "hdu"

FITS_ACTION_COPY == "copied"
FITS_ACTION_REMOVE == "removed"

\* The HDUs of the input file, and the lists of HDUs the options name.
HDUs == {"a", "b"}

HduLists == UNION {[1..n -> HDUs] : n \in 0..MaxList}

\* The callers' inputs: the mode; whether to quit on an error; in HDU
\* mode, one of the options that must be called alone, or the lists of the
\* --copy, --cut and --remove options.
FitsInit ==
  \E mode \in {FITS_MODE_KEY, FITS_MODE_HDU, "other"},
     quitonerror \in BOOLEAN, alone \in BOOLEAN,
     copy \in HduLists, cut \in HduLists, remove \in HduLists :
    /\ (mode # FITS_MODE_HDU \/ alone) =>
         (copy = <<>> /\ cut = <<>> /\ remove = <<>>)
    /\ mode # FITS_MODE_HDU => ~ alone
    /\ Len(copy) + Len(cut) + Len(remove) <= MaxList
    /\ heap = <<>> /\ pre = <<>> /\ fn = "fits" /\ pc = "entry"
    /\ operator = "" /\ flags = {}
    /\ arg = [mode |-> mode, quitonerror |-> quitonerror, alone |-> alone,
              copy |-> copy, cut |-> cut, remove |-> remove]
    /\ loc = NoArgs /\ ret = NULL /\ err = "" /\ acc = {}
    /\ files = [in |-> HDUs, out |-> <<>>, log |-> <<>>]

\* gal_list_str_pop(&list): the top element, and the list without it.
gal_list_str_pop(list) == [v |-> Head(list), list |-> Tail(list)]

\* A variant of the assignment to *r that takes the result of every call.
ResultAfter_Last(r, failed) ==
  IF failed THEN EXIT_FAILURE ELSE EXIT_SUCCESS

\* if( call ) *r=fits_has_error(...): *r when the process goes on, i.e.
\* fits_has_error returned EXIT_FAILURE if it was called.
ResultAfter(r, failed) ==
  IF failed THEN EXIT_FAILURE ELSE r

\* fits_has_error: with quitonerror it does not return.
HasErrorQuits(p, actioncode) ==
  actioncode \notin {FITS_ACTION_COPY, FITS_ACTION_REMOVE} \/ p.quitonerror

\* fits_copy_hdu(in, out, 0, &status) on the HDU `hdu' of list `list': when
\* it works the HDU is appended to the output file.
fits_copy_hdu(f, list, hdu, ok) ==
  [f EXCEPT !.out = IF ok THEN Append(@, hdu) ELSE @,
            !.log = Append(@, [call |-> "copy", list |-> list,
                               hdu |-> hdu, ok |-> ok])]

\* fits_delete_hdu(in, &hdutype, &status): when it works the HDU is no
\* longer in the input file.
fits_delete_hdu(f, list, hdu, ok) ==
  [f EXCEPT !.in = IF ok THEN @ \ {hdu} ELSE @,
            !.log = Append(@, [call |-> "delete", list |-> list,
                               hdu |-> hdu, ok |-> ok])]

\* switch(p->mode).  keywords(p) is another file's function: it returns
\* either value.  In HDU mode an option that must be called alone is run
\* and nothing else; otherwise the three lists are worked on in turn.
FitsSwitch ==
  /\ fn = "fits" /\ pc = "entry"
  /\ IF arg.mode = FITS_MODE_KEY
     THEN /\ ret' \in {EXIT_SUCCESS, EXIT_FAILURE}
          /\ pc' = "done" /\ err' = err /\ loc' = loc
     ELSE IF arg.mode # FITS_MODE_HDU
     THEN Exit("mode not recognized") /\ UNCHANGED <<ret, loc>>
     ELSE IF arg.alone
     THEN /\ ret' = EXIT_SUCCESS
          /\ pc' = "done" /\ err' = err /\ loc' = loc
     ELSE /\ loc' = [r |-> EXIT_SUCCESS, list |-> arg.copy]
          /\ pc' = "copy" /\ err' = err /\ ret' = ret
  /\ UNCHANGED <<files, heap, pre, fn, operator, flags, arg, acc>>

\* One iteration of the loop of fits_hdu_copy: pop the HDU, copy it, and
\* in a cut delete it from the input.  `copied' and `deleted' are the
\* results of the two CFITSIO calls.
HduCopyIteration(cut1_copy0) ==
  LET hdu  == gal_list_str_pop(loc.list).v
      rest == gal_list_str_pop(loc.list).list
      list == IF cut1_copy0 THEN "cut" ELSE "copy"
  IN  \E copied \in BOOLEAN, deleted \in BOOLEAN :
        LET f1 == fits_copy_hdu(files, list, hdu, copied)
            r1 == ResultAfter(loc.r, ~ copied)
            f2 == IF cut1_copy0
                  THEN fits_delete_hdu(f1, list, hdu, deleted) ELSE f1
            r2 == IF cut1_copy0 THEN ResultAfter(r1, ~ deleted) ELSE r1
        IN  IF ~ copied /\ HasErrorQuits(arg, FITS_ACTION_COPY)
            THEN /\ deleted
                 /\ files' = f1
                 /\ loc' = [loc EXCEPT !.list = rest]
                 /\ Exit("not copied")
            ELSE IF /\ cut1_copy0 /\ ~ deleted
                    /\ HasErrorQuits(arg, FITS_ACTION_REMOVE)
            THEN /\ files' = f2
                 /\ loc' = [loc EXCEPT !.list = rest, !.r = r1]
                 /\ Exit("not removed")
            ELSE /\ cut1_copy0 \/ deleted
                 /\ files' = f2
                 /\ loc' = [loc EXCEPT !.list = rest, !.r = r2]
                 /\ pc' = pc /\ err' = err

\* fits_hdu_copy(p, 0, &r): an iteration on the --copy list.
FitsCopy ==
  /\ fn = "fits" /\ pc = "copy" /\ loc.list # <<>>
  /\ HduCopyIteration(FALSE)
  /\ UNCHANGED <<heap, pre, fn, operator, flags, arg, ret, acc>>

\* The --copy list is done (or was empty): go on to the --cut list.
FitsCopyReturn ==
  /\ fn = "fits" /\ pc = "copy" /\ loc.list = <<>>
  /\ loc' = [loc EXCEPT !.list = arg.cut]
  /\ pc' = "cut"
  /\ UNCHANGED <<files, heap, pre, fn, operator, flags, arg, ret, err, acc>>

\* fits_hdu_copy(p, 1, &r): an iteration on the --cut list.
FitsCut ==
  /\ fn = "fits" /\ pc = "cut" /\ loc.list # <<>>
  /\ HduCopyIteration(TRUE)
  /\ UNCHANGED <<heap, pre, fn, operator, flags, arg, ret, acc>>

\* The --cut list is done (or was empty): go on to the --remove list.
FitsCutReturn ==
  /\ fn = "fits" /\ pc = "cut" /\ loc.list = <<>>
  /\ loc' = [loc EXCEPT !.list = arg.remove]
  /\ pc' = "remove"
  /\ UNCHANGED <<files, heap, pre, fn, operator, flags, arg, ret, err, acc>>

\* One iteration of the loop of fits_hdu_remove.
FitsRemove ==
  /\ fn = "fits" /\ pc = "remove" /\ loc.list # <<>>
  /\ LET hdu  == gal_list_str_pop(loc.list).v
         rest == gal_list_str_pop(loc.list).list
     IN  \E deleted \in BOOLEAN :
           /\ files' = fits_delete_hdu(files, "remove", hdu, deleted)
           /\ IF ~ deleted /\ HasErrorQuits(arg, FITS_ACTION_REMOVE)
              THEN /\ loc' = [loc EXCEPT !.list = rest]
                   /\ Exit("not removed")
              ELSE /\ loc' = [loc EXCEPT !.list = rest,
                                         !.r = ResultAfter(@, ~ deleted)]
                   /\ pc' = pc /\ err' = err
  /\ UNCHANGED <<heap, pre, fn, operator, flags, arg, ret, acc>>

\* The --remove list is done (or was empty): return r.
FitsReturn ==
  /\ fn = "fits" /\ pc = "remove" /\ loc.list = <<>>
  /\ ret' = loc.r
  /\ pc' = "done"
  /\ UNCHANGED <<files, heap, pre, fn, operator, flags, arg, loc, err, acc>>

FitsNext ==
  \/ FitsSwitch \/ FitsCopy \/ FitsCopyReturn \/ FitsCut \/ FitsCutReturn
  \/ FitsRemove \/ FitsReturn

SpecFits == FitsInit /\ [][FitsNext]_vars

(***************************************************************************)
(* make_list_of_indexs(cols, allcols, numcols, searchin, ignorecase,       *)
(* filename, hdu).  A string is the sequence of its characters.            *)
(***************************************************************************)
GAL_TABLE_SEARCH_NAME == "name"
GAL_TABLE_SEARCH_UNIT == "unit"
GAL_TABLE_SEARCH_COMMENT == "comment"

\* A char* that is NULL (a column without a name, unit or comment).
NullString == <<"(null)">>

\* The column specifiers of the model: a regular expression, names, and
\* strings that strtol reads in part or as a whole.
Specifiers ==
  {<<"/", "a", "/">>, <<"a">>, <<"b", "a">>, <<"0">>, <<"1">>, <<"2">>,
   <<"0", "2">>, <<"-", "1">>, <<"2", "a">>, <<"9">>}

\* The columns of the model's tables: no name or a name (one of them reads
\* as a number), all with the same unit and without a comment.
Columns ==
  {[name |-> n, unit |-> <<"a">>, comment |-> NullString] :
     n \in {NullString, <<"a">>, <<"b", "a">>, <<"0">>}}

\* The callers' inputs.  All letters are lower case, so ignorecase makes
\* no difference and is left out, like filename and hdu, which are only
\* used in messages.
TableInit ==
  \E cols \in UNION {[1..n -> Specifiers] : n \in 0..MaxCols},
     allcols \in UNION {[1..n -> Columns] : n \in 0..MaxNumCols},
     searchin \in {GAL_TABLE_SEARCH_NAME, GAL_TABLE_SEARCH_UNIT,
                   GAL_TABLE_SEARCH_COMMENT, "other"} :
    Entered("make_list_of_indexs", <<>>, "", {},
            [cols |-> cols, allcols |-> allcols, numcols |-> Len(allcols),
             searchin |-> searchin])

\* The value of a character as a digit, 99 when it is none.
DigitOf(c) ==
  CASE c = "0" -> 0 [] c = "1" -> 1 [] c = "2" -> 2 [] c = "3" -> 3
    [] c = "4" -> 4 [] c = "5" -> 5 [] c = "6" -> 6 [] c = "7" -> 7
    [] c = "8" -> 8 [] c = "9" -> 9 [] c = "a" -> 10 [] c = "b" -> 11
    [] c = "c" -> 12 [] c = "d" -> 13 [] c = "e" -> 14 [] c = "f" -> 15
    [] OTHER -> 99

\* Character i of the string v, "" for the terminating null character.
CharAt(v, i) == IF i \in 1..Len(v) THEN v[i] ELSE ""

\* The first position from i on that holds no digit of the base.
RECURSIVE DigitsEnd(_, _, _)
DigitsEnd(v, i, base) ==
  IF DigitOf(CharAt(v, i)) < base THEN DigitsEnd(v, i + 1, base) ELSE i

\* The number the digits at positions i..(e - 1) write in the base.
RECURSIVE DigitsValue(_, _, _, _, _)
DigitsValue(v, i, e, base, n) ==
  IF i >= e THEN n
  ELSE DigitsValue(v, i + 1, e, base, n * base + DigitOf(CharAt(v, i)))

\* strtol(v, &tailptr, 0): an optional sign, then a number in base 16
\* after "0x", in base 8 after "0", in base 10 otherwise.  `tail' is the
\* position tailptr points to: the first character that was not read, the
\* start of the string when there is no digit.
Strtol(v) ==
  LET signed == CharAt(v, 1) \in {"-", "+"}
      s      == IF signed THEN 2 ELSE 1
      hex    == /\ CharAt(v, s) = "0" /\ CharAt(v, s + 1) \in {"x", "X"}
                /\ DigitOf(CharAt(v, s + 2)) < 16
      base   == IF hex THEN 16 ELSE IF CharAt(v, s) = "0" THEN 8 ELSE 10
      first  == IF hex THEN s + 2 ELSE s
      e      == DigitsEnd(v, first, base)
      n      == DigitsValue(v, first, e, base, 0)
  IN  IF e = first THEN [value |-> 0, tail |-> 1]
      ELSE [value |-> IF CharAt(v, 1) = "-" THEN 0 - n ELSE n, tail |-> e]

\* tmp->v[0]=='/' && tmp->v[strlen(tmp->v)-1]=='/'
IsRegex(v) == v[1] = "/" /\ v[Len(v)] = "/"

\* regcomp and regexec for a pattern without special characters: the
\* pattern is found somewhere in the string.
RegexMatches(pattern, str) ==
  \E i \in 1..(Len(str) + 1) :
    /\ i + Len(pattern) - 1 <= Len(str)
    /\ SubSeq(str, i, i + Len(pattern) - 1) = pattern

\* SET_STRCHECK: the string of a column to search in, an error for a
\* searchin that is none of the three.
SearchinKnown(searchin) ==
  searchin \in {GAL_TABLE_SEARCH_NAME, GAL_TABLE_SEARCH_UNIT,
                GAL_TABLE_SEARCH_COMMENT}

StrCheck(col, searchin) ==
  CASE searchin = GAL_TABLE_SEARCH_NAME -> col.name
    [] searchin = GAL_TABLE_SEARCH_UNIT -> col.unit
    [] OTHER -> col.comment

\* gal_linkedlist_add_to_sll(&list, value): the value is put on the top.
gal_linkedlist_add_to_sll(list, value) == <<value>> \o list

\* gal_linkedlist_reverse_sll(&list)
gal_linkedlist_reverse_sll(list) == Reverse(list)

\* for(i=0;i<numcols;++i) if(strcheck && match) add_to_sll(&indexll, i):
\* from column i on, for match[i] saying whether column i matches.
RECURSIVE AddMatches(_, _, _, _)
AddMatches(indexll, match, i, numcols) ==
  IF i >= numcols THEN indexll
  ELSE AddMatches(IF match[i] THEN gal_linkedlist_add_to_sll(indexll, i)
                  ELSE indexll,
                  match, i + 1, numcols)

\* (tlong=strtol(tmp->v, &tailptr, 0)) && *tailptr=='\0'
IsColumnNumber(v) == Strtol(v).value # 0 /\ Strtol(v).tail = Len(v) + 1

\* The body of the loop over cols for the specifier v: the error it ends
\* in ("" for none) and the list of indexes after it.
OneSpecifier(v, indexll, allcols, numcols, searchin) ==
  LET ByRegex ==
        [i \in 0..(numcols - 1) |->
           /\ StrCheck(allcols[i + 1], searchin) # NullString
           /\ RegexMatches(SubSeq(v, 2, Len(v) - 1),
                           StrCheck(allcols[i + 1], searchin))]
      ByName ==
        [i \in 0..(numcols - 1) |->
           /\ StrCheck(allcols[i + 1], searchin) # NullString
           /\ v = StrCheck(allcols[i + 1], searchin)]
      tlong == Strtol(v).value
  IN  IF IsRegex(v)
      THEN IF numcols > 0 /\ ~ SearchinKnown(searchin)
           THEN [err |-> "searchin not recognized", indexll |-> indexll]
           ELSE [err |-> "",
                 indexll |-> AddMatches(indexll, ByRegex, 0, numcols)]
      ELSE IF IsColumnNumber(v)
      THEN IF tlong < 0
           THEN [err |-> "column number must not be negative",
                 indexll |-> indexll]
           ELSE IF tlong > numcols
           THEN [err |-> "column number larger than the number of columns",
                 indexll |-> indexll]
           ELSE [err |-> "",
                 indexll |-> gal_linkedlist_add_to_sll(indexll, tlong - 1)]
      ELSE IF numcols > 0 /\ ~ SearchinKnown(searchin)
           THEN [err |-> "searchin not recognized", indexll |-> indexll]
           ELSE [err |-> "",
                 indexll |-> AddMatches(indexll, ByName, 0, numcols)]

\* for(tmp=cols; tmp!=NULL; tmp=tmp->next): from specifier k on.
RECURSIVE OverCols(_, _, _, _, _, _)
OverCols(cols, k, indexll, allcols, numcols, searchin) ==
  IF k > Len(cols) THEN [err |-> "", indexll |-> indexll]
  ELSE LET one == OneSpecifier(cols[k], indexll, allcols, numcols, searchin)
       IN  IF one.err # "" THEN one
           ELSE OverCols(cols, k + 1, one.indexll, allcols, numcols,
                         searchin)

\* A variant that returns the list as the loop left it.
make_list_of_indexs_NoReverse(cols, allcols, numcols, searchin) ==
  OverCols(cols, 1, <<>>, allcols, numcols, searchin)

\* make_list_of_indexs: the loop, then the list is reversed.
make_list_of_indexs(cols, allcols, numcols, searchin) ==
  LET all == OverCols(cols, 1, <<>>, allcols, numcols, searchin)
  IN  IF all.err # "" THEN all
      ELSE [err |-> "", indexll |-> gal_linkedlist_reverse_sll(all.indexll)]

\* The call: it returns the list, or the process ends in an error.
MakeListOfIndexs ==
  /\ fn = "make_list_of_indexs" /\ pc = "entry"
  /\ LET out == make_list_of_indexs(arg.cols, arg.allcols, arg.numcols,
                                    arg.searchin)
     IN  IF out.err # ""
         THEN Exit(out.err) /\ ret' = ret
         ELSE ret' = out.indexll /\ pc' = "done" /\ err' = err
  /\ UNCHANGED <<files, heap, pre, fn, operator, flags, arg, loc, acc>>

SpecTable == TableInit /\ [][MakeListOfIndexs]_vars

\* The function returned (no error).
Returned(f) == fn = f /\ pc = "done"

\* C1: for every cast operator and every input, the returned array has the
\* type the operator names and the input's dimensions.
C1_CastKindAndShape ==
  Returned("change_type") =>
    /\ heap[ret].type = NamedType(operator)
    /\ heap[ret].dsize = pre[arg.data].dsize

\* C2: the array returned by data_arithmetic_not is unsigned char, has the
\* input's dimensions, and element i is 1 when the input's element i is 0
\* and 0 otherwise, for every i and every supported input type.
C2_NotEveryElement ==
  Returned("not") =>
    /\ heap[ret].type = GAL_DATA_TYPE_UCHAR
    /\ heap[ret].dsize = pre[arg.data].dsize
    /\ \A i \in 1..pre[arg.data].size :
         heap[ret].array[i] = (IF pre[arg.data].array[i] = 0 THEN 1 ELSE 0)

\* iftrue has one element or as many as out.
IftrueFits == pre[arg.iftrue].size \in {1, pre[arg.out].size}

\* C3: after data_arithmetic_where, at every index whose condition is not
\* zero, out holds iftrue's element (its only one when iftrue has one)
\* converted to out's type.
C3_WhereSelected ==
  (Returned("where") /\ IftrueFits) =>
    \A i \in 1..pre[arg.out].size :
      pre[arg.cond].array[i] # 0 =>
        heap[arg.out].array[i] =
          Convert(pre[arg.iftrue].array[WhereIndex(pre, arg.iftrue, i)],
                  pre[arg.out].type)

\* C4: data_arithmetic_where leaves out's element unchanged at every index
\* whose condition is zero, for every pair of types of out and iftrue.
C4_WhereUnselected ==
  Returned("where") =>
    \A i \in 1..pre[arg.out].size :
      pre[arg.cond].array[i] = 0 =>
        heap[arg.out].array[i] = pre[arg.out].array[i]

\* C5: when iftrue has neither one element nor as many as out,
\* data_arithmetic_where stops with an error before the loop: the loop is
\* never passed, out is not modified and no element past iftrue's end is
\* read.
C5_WhereIftrueSizeChecked ==
  (fn = "where" /\ ~ IftrueFits) =>
    /\ pc \notin {"free", "done"}
    /\ heap[arg.out].array = pre[arg.out].array
    /\ \A a \in acc : a.h = arg.iftrue => a.i <= pre[arg.iftrue].size

\* Both operands are floating point.
BothFloat == pre[arg.l].type \in FloatTypes /\ pre[arg.r].type \in FloatTypes

OneIsNumber == pre[arg.l].size = 1 \/ pre[arg.r].size = 1

SizeError == pc = "exit" /\ err = "not the same dimension/size"

\* The returned array has the dimensions of the operand with more than
\* one element, when there is one.
ShapeOfNonScalar ==
  /\ pre[arg.l].size > 1 => heap[ret].dsize = pre[arg.l].dsize
  /\ pre[arg.r].size > 1 => heap[ret].dsize = pre[arg.r].dsize

\* C6 as stated: for floating point operands one of which has one element,
\* data_arithmetic_binary_function_f raises no size error and returns the
\* dimensions of the other operand, whatever the flags.
C6_ScalarAnyFlags ==
  (fn = "binary" /\ BothFloat /\ OneIsNumber) =>
    /\ ~ SizeError
    /\ Returned("binary") => ShapeOfNonScalar

\* C6 (amended): with the NUMOK flag set, floating point operands one of
\* which has one element raise no size error and the returned array has the
\* dimensions of the other operand; without the flag they raise the size
\* error exactly when their dimension lists differ.
C6_ScalarWithNumok ==
  (fn = "binary" /\ BothFloat /\ OneIsNumber) =>
    /\ GAL_DATA_ARITH_NUMOK \in flags => ~ SizeError
    /\ (GAL_DATA_ARITH_NUMOK \notin flags /\ pc # "entry") =>
         (SizeError <=> pre[arg.l].dsize # pre[arg.r].dsize)
    /\ Returned("binary") => ShapeOfNonScalar

C6_Witness ==
  /\ Returned("binary") /\ GAL_DATA_ARITH_NUMOK \in flags
  /\ pre[arg.l].size = 1 /\ pre[arg.r].size > 1
  /\ heap[ret].dsize = pre[arg.r].dsize

\* C7 as stated: floating point operands that both have more than one
\* element are accepted if and only if their numbers of elements are equal.
C7_AcceptedIffSameSize ==
  (fn = "binary" /\ BothFloat /\ ~ OneIsNumber /\ pc # "entry") =>
    (SizeError <=> pre[arg.l].size # pre[arg.r].size)

\* C7 (amended): floating point operands that both have more than one
\* element are accepted if and only if their dimension lists are equal
\* (the same number of dimensions and the same length along each); operands
\* with the same number of elements and different dimension lists are
\* rejected with the size error.
C7_AcceptedIffSameDsize ==
  (fn = "binary" /\ BothFloat /\ ~ OneIsNumber /\ pc # "entry") =>
    (SizeError <=> pre[arg.l].dsize # pre[arg.r].dsize)

C7_Witness ==
  /\ fn = "binary" /\ BothFloat /\ SizeError
  /\ pre[arg.l].size = pre[arg.r].size /\ pre[arg.l].size > 1

\* C8 as stated: the returned array has the dimensions of the operand with
\* more than one element, and the left operand's when both have one.
C8_ShapeLeftWhenBothScalar ==
  Returned("binary") =>
    /\ ShapeOfNonScalar
    /\ (pre[arg.l].size = 1 /\ pre[arg.r].size = 1) =>
         heap[ret].dsize = pre[arg.l].dsize

\* C8 (amended): the returned array has the dimensions of the operand with
\* more than one element; when both have one element it has the left
\* operand's dimensions if the left operand is reused as the output and the
\* right operand's otherwise (a new array, or the right operand reused).
C8_ShapeOfOutput ==
  Returned("binary") =>
    /\ ShapeOfNonScalar
    /\ (pre[arg.l].size = 1 /\ pre[arg.r].size = 1) =>
         heap[ret].dsize = (IF ret = arg.l THEN pre[arg.l].dsize
                            ELSE pre[arg.r].dsize)

C8_Witness ==
  /\ Returned("binary")
  /\ pre[arg.l].size = 1 /\ pre[arg.r].size = 1
  /\ pre[arg.l].dsize # pre[arg.r].dsize
  /\ ret \notin {arg.l, arg.r}
  /\ heap[ret].dsize = pre[arg.r].dsize

Qualifies(x) ==
  /\ pre[x].type = (IF GAL_DATA_TYPE_DOUBLE \in {pre[arg.l].type,
                                                 pre[arg.r].type}
                    THEN GAL_DATA_TYPE_DOUBLE ELSE pre[arg.l].type)
  /\ pre[x].size >= pre[arg.l].size /\ pre[x].size >= pre[arg.r].size

\* C10: with the in-place flag the function returns the left operand when
\* it qualifies, the right one when only the right one qualifies, and a
\* new array when neither qualifies or the flag is not set.
C10_InplaceChoice ==
  Returned("binary") =>
    ret = (IF GAL_DATA_ARITH_INPLACE \in flags /\ Qualifies(arg.l)
           THEN arg.l
           ELSE IF GAL_DATA_ARITH_INPLACE \in flags /\ Qualifies(arg.r)
           THEN arg.r
           ELSE Len(pre) + 1)

C10_Witness ==
  /\ Returned("binary") /\ GAL_DATA_ARITH_INPLACE \in flags
  /\ ~ Qualifies(arg.l) /\ Qualifies(arg.r) /\ ret = arg.r
  /\ Len(heap) = Len(pre)

\* No dataset has been freed.
NoneFreed == \A x \in DOMAIN heap : heap[x].freed = 0

\* Every element of the returned dataset was written by the loop.
AllWritten ==
  \A i \in 1..heap[ret].size : [h |-> ret, i |-> i, rw |-> "w"] \in acc

\* C11: in data_arithmetic_binary_function_f on two distinct operands,
\* nothing is freed before the loop is over; on return the returned dataset
\* is not freed, and every operand that is not the returned dataset has
\* been freed once when the free flag is set and not at all when it is not.
C11_BinaryRelease ==
  fn = "binary" =>
    /\ pc # "done" => NoneFreed
    /\ pc = "done" =>
         /\ AllWritten
         /\ heap[ret].freed = 0
         /\ \A x \in {arg.l, arg.r} \ {ret} :
              heap[x].freed =
                (IF GAL_DATA_ARITH_FREE \in flags THEN 1 ELSE 0)

C11_Witness ==
  /\ Returned("binary") /\ GAL_DATA_ARITH_FREE \in flags
  /\ arg.l # arg.r /\ ret = arg.l
  /\ heap[arg.l].freed = 0 /\ heap[arg.r].freed = 1

\* C12: data_arithmetic_unary_function_f with the in-place flag returns
\* its input and allocates nothing; without the flag it returns a dataset
\* that did not exist before the call and leaves the input's array as it
\* was.
C12_UnaryInplace ==
  Returned("unary") =>
    IF GAL_DATA_ARITH_INPLACE \in flags
    THEN ret = arg.in /\ Len(heap) = Len(pre)
    ELSE /\ ret \notin DOMAIN pre
         /\ Len(heap) = Len(pre) + 1
         /\ heap[arg.in].array = pre[arg.in].array

C12_Witness ==
  /\ Returned("unary") /\ GAL_DATA_ARITH_INPLACE \in flags
  /\ pre[arg.in].type \in FloatTypes
  /\ ret = arg.in /\ Len(heap) = 1
  /\ \A i \in 1..heap[ret].size :
       heap[ret].array[i] = UnaryApply(operator, pre[arg.in].array[i])

\* C13: in data_arithmetic_unary_function_f nothing is freed before every
\* output element is written; on return the input has been freed once when
\* the free flag is set and the in-place flag is not, and not at all
\* otherwise; the returned dataset is never freed.
C13_UnaryRelease ==
  fn = "unary" =>
    /\ pc # "done" => NoneFreed
    /\ pc = "done" =>
         /\ AllWritten
         /\ heap[ret].freed = 0
         /\ heap[arg.in].freed =
              (IF /\ GAL_DATA_ARITH_FREE \in flags
                  /\ GAL_DATA_ARITH_INPLACE \notin flags
               THEN 1 ELSE 0)

C13_Witness ==
  /\ Returned("unary") /\ flags = {GAL_DATA_ARITH_FREE}
  /\ ret # arg.in /\ heap[arg.in].freed = 1 /\ AllWritten

\* C14: in every function, when an error is raised every dataset that
\* existed before the call is as it was (same array, not freed) and the
\* loop has not read or written any element.
C14_FailureBeforeWriteOrRelease ==
  pc = "exit" =>
    /\ \A x \in DOMAIN pre : heap[x] = pre[x]
    /\ acc = {}

C14_Witness ==
  /\ fn = "unary" /\ pc = "exit" /\ err = "operator not recognized"
  /\ flags = {GAL_DATA_ARITH_FREE} /\ Len(heap) > Len(pre)
  /\ heap[arg.in] = pre[arg.in]

\* The condition of data_arithmetic_where is not unsigned char, or its
\* dimensions are not the output's.
CondUnfit ==
  \/ pre[arg.cond].type # GAL_DATA_TYPE_UCHAR
  \/ pre[arg.cond].dsize # pre[arg.out].dsize

\* C15: whenever the condition is not unsigned char or its dimension list
\* differs from the output's, data_arithmetic_where ends in an error and
\* the output (like every other dataset) is as it was.
C15_WhereCondRejected ==
  (fn = "where" /\ CondUnfit) =>
    /\ pc \in {"entry", "exit"}
    /\ heap = pre
    /\ pc = "exit" =>
         err \in {"condition must be unsigned char",
                  "output and condition must be the same size"}

C15_Witness ==
  /\ fn = "where" /\ pc = "exit"
  /\ err = "output and condition must be the same size"
  /\ pre[arg.cond].type = GAL_DATA_TYPE_UCHAR
  /\ pre[arg.cond].size = 1 /\ pre[arg.out].size > 1
  /\ heap[arg.out] = pre[arg.out]

\* An operand of the binary function is not floating point.
NonFloatOperand ==
  \E x \in {arg.l, arg.r} : pre[x].type \notin FloatTypes

TypeErrors ==
  {"first operand is not floating point",
   "second operand is not floating point"}

\* C16 as stated: whenever an operand is not floating point,
\* data_arithmetic_binary_function_f ends in the type error, with nothing
\* allocated, written or freed.
C16_TypeErrorWhenever ==
  (fn = "binary" /\ NonFloatOperand) =>
    /\ pc \in {"entry", "exit"}
    /\ heap = pre
    /\ pc = "exit" => err \in TypeErrors

\* C16: whenever an operand is not floating point,
\* data_arithmetic_binary_function_f ends in an error with nothing
\* allocated, written or freed: the size error when the size check (which
\* comes first) fails, otherwise the type error of the left operand when
\* it is not floating point, otherwise that of the right operand.
C16_TypeErrorAfterSizeCheck ==
  (fn = "binary" /\ NonFloatOperand) =>
    /\ pc \in {"entry", "exit"}
    /\ heap = pre
    /\ pc = "exit" =>
         err = (IF BinarySizeMismatch(pre, flags, arg.l, arg.r)
                THEN "not the same dimension/size"
                ELSE IF pre[arg.l].type \notin FloatTypes
                THEN "first operand is not floating point"
                ELSE "second operand is not floating point")

C16_Witness ==
  /\ fn = "binary" /\ pc = "exit"
  /\ err = "second operand is not floating point"
  /\ pre[arg.l].type \in FloatTypes /\ pre[arg.r].type \notin FloatTypes
  /\ heap = pre

\* C17: for every input that is not floating point,
\* data_arithmetic_unary_function_f ends in the type error with no dataset
\* allocated and the input as it was (its type included).
C17_UnaryNonFloatRejected ==
  (fn = "unary" /\ pre[arg.in].type \notin FloatTypes) =>
    /\ pc \in {"entry", "exit"}
    /\ heap = pre
    /\ pc = "exit" => err = "first operand is not floating point"

C17_Witness ==
  /\ fn = "unary" /\ pc = "exit"
  /\ err = "first operand is not floating point"
  /\ pre[arg.in].type = GAL_DATA_TYPE_INT
  /\ GAL_DATA_ARITH_INPLACE \in flags
  /\ heap = pre

\* C18: on a bit input data_arithmetic_not never gets past its switch: it
\* ends in the error about the bit type, and the input is as it was and not
\* freed, with or without the free flag.
C18_NotBitRejected ==
  (fn = "not" /\ pre[arg.data].type = GAL_DATA_TYPE_BIT) =>
    /\ pc \in {"entry", "loop", "exit"}
    /\ heap[arg.data] = pre[arg.data]
    /\ pc = "exit" => err = "bit datatype not supported"

C18_Witness ==
  /\ fn = "not" /\ pc = "exit" /\ err = "bit datatype not supported"
  /\ pre[arg.data].type = GAL_DATA_TYPE_BIT
  /\ GAL_DATA_ARITH_FREE \in flags
  /\ heap[arg.data] = pre[arg.data]

\* C19: casting a dataset with the operator that names its own type
\* returns a dataset of that type with the same dimensions and the same
\* elements.
C19_IdentityCast ==
  (Returned("change_type") /\ NamedType(operator) = pre[arg.data].type) =>
    /\ heap[ret].type = pre[arg.data].type
    /\ heap[ret].dsize = pre[arg.data].dsize
    /\ heap[ret].array = pre[arg.data].array

\* C20: in data_arithmetic_change_type nothing is freed before the copy is
\* made; on return the input has been freed once when the free flag is set
\* and not at all when it is not, and the returned dataset is one that did
\* not exist before the call, whatever the type asked for.
C20_CastRelease ==
  fn = "change_type" =>
    /\ pc # "done" => NoneFreed
    /\ pc = "done" =>
         /\ ret \notin DOMAIN pre
         /\ heap[ret].freed = 0
         /\ Len(heap[ret].array) = pre[arg.data].size
         /\ heap[arg.data].freed =
              (IF GAL_DATA_ARITH_FREE \in flags THEN 1 ELSE 0)

C20_Witness ==
  /\ Returned("change_type") /\ GAL_DATA_ARITH_FREE \in flags
  /\ ChangeTypeOf(operator) = pre[arg.data].type
  /\ ret # arg.data /\ heap[arg.data].freed = 1 /\ heap[ret].freed = 0

\* C21: data_arithmetic_where allocates nothing and never frees out, whose
\* type and dimensions stay as they were; nothing is freed before the loop
\* is over, and on return cond and iftrue have each been freed once when
\* the free flag is set and not at all when it is not.
C21_WhereRelease ==
  fn = "where" =>
    /\ Len(heap) = Len(pre)
    /\ heap[arg.out].freed = 0
    /\ heap[arg.out].type = pre[arg.out].type
    /\ heap[arg.out].dsize = pre[arg.out].dsize
    /\ pc # "done" => NoneFreed
    /\ pc = "done" =>
         \A x \in {arg.cond, arg.iftrue} :
           heap[x].freed = (IF GAL_DATA_ARITH_FREE \in flags THEN 1 ELSE 0)

C21_Witness ==
  /\ Returned("where") /\ GAL_DATA_ARITH_FREE \in flags
  /\ heap[arg.cond].freed = 1 /\ heap[arg.iftrue].freed = 1
  /\ heap[arg.out].freed = 0 /\ acc # {}

\* C22: during a call of any of the five functions, every dataset that
\* existed before the call keeps its type and its dimensions; cast and not
\* return a dataset that did not exist before, and when the unary or the
\* binary function returns one of its inputs, that input had the output's
\* type and number of elements before the call.
C22_KindAndShapeKept ==
  /\ \A x \in DOMAIN pre :
       /\ heap[x].type = pre[x].type
       /\ heap[x].ndim = pre[x].ndim
       /\ heap[x].dsize = pre[x].dsize
       /\ heap[x].size = pre[x].size
  /\ (Returned("change_type") \/ Returned("not")) => ret \notin DOMAIN pre
  /\ (Returned("unary") /\ ret \in DOMAIN pre) =>
       /\ GAL_DATA_ARITH_INPLACE \in flags
       /\ ret = arg.in
  /\ (Returned("binary") /\ ret \in DOMAIN pre) =>
       /\ GAL_DATA_ARITH_INPLACE \in flags
       /\ pre[ret].type = gal_data_out_type(pre, arg.l, arg.r)
       /\ pre[ret].size = BinaryOutSize(pre, arg.l, arg.r)

C22_Witness ==
  /\ Returned("binary") /\ ret = arg.r
  /\ pre[arg.l].type = GAL_DATA_TYPE_FLOAT
  /\ pre[arg.r].type = GAL_DATA_TYPE_DOUBLE
  /\ pre[arg.l].size = pre[arg.r].size
  /\ heap[ret].array # pre[ret].array
  /\ heap[ret].type = GAL_DATA_TYPE_DOUBLE
  /\ heap[ret].dsize = pre[ret].dsize

\* The loop of the binary function is over.
BinaryLoopDone == fn = "binary" /\ pc \in {"free", "crash", "done"}

\* The three ways of pairing the elements, by the operands' sizes.
SizesEqual == pre[arg.l].size = pre[arg.r].size
LeftIsNumber == pre[arg.l].size = 1 /\ pre[arg.r].size > 1
RightIsNumber == pre[arg.r].size = 1 /\ pre[arg.l].size > 1

\* C23: once the loop of data_arithmetic_binary_function_f is over, exactly
\* one of the three pairings applied, every element i of the output holds
\* pow of the elements the pairing gives (i and i, the first and i, i and
\* the first), and no element was read or written outside of its array.
C23_BinaryPairing ==
  BinaryLoopDone =>
    /\ \/ SizesEqual /\ ~ LeftIsNumber /\ ~ RightIsNumber
       \/ ~ SizesEqual /\ LeftIsNumber /\ ~ RightIsNumber
       \/ ~ SizesEqual /\ ~ LeftIsNumber /\ RightIsNumber
    /\ heap[loc.o].size = loc.out_size
    /\ \A i \in 1..loc.out_size :
         heap[loc.o].array[i] =
           Convert(Pow(pre[arg.l].array[IF LeftIsNumber THEN 1 ELSE i],
                       pre[arg.r].array[IF RightIsNumber THEN 1 ELSE i]),
                   loc.final_otype)
    /\ ~ OutOfBounds(heap, acc)

\* The array data_arithmetic_binary_function_f returns for the operands l
\* and r of heap h under the flags fl: the output is set as BinarySetOutput
\* sets it and the loop is run on it.
BinaryValues(h, fl, l, r, g) ==
  LET final_otype == gal_data_out_type(h, l, r)
      out_size    == BinaryOutSize(h, l, r)
      inplace     == BinaryInplace(h, fl, l, r, final_otype, out_size)
      o           == IF inplace # NULL THEN inplace ELSE Len(h) + 1
      set         == IF inplace # NULL THEN h
                     ELSE gal_data_alloc(h, final_otype,
                                         BinaryAllocDsize(h, l, r), g)
  IN  BinaryRun(set, l, r, o, 1, g)[o].array

\* The same for data_arithmetic_unary_function_f.
UnaryValues(h, fl, op, in, g) ==
  LET set == UnaryOutput(h, fl, in, g)
      o   == IF Len(set) > Len(h) THEN Len(set) ELSE in
  IN  UnaryRun(set, op, in, o, 1, g)[o].array

\* C24: the array the unary or the binary function returns when called
\* with the in-place flag holds the elements that the same call without
\* the in-place flag returns.
C24_InplaceSameValues ==
  /\ (Returned("unary") /\ GAL_DATA_ARITH_INPLACE \in flags) =>
       \E g \in Garbage :
         heap[ret].array =
           UnaryValues(pre, flags \ {GAL_DATA_ARITH_INPLACE}, operator,
                       arg.in, g)
  /\ (Returned("binary") /\ GAL_DATA_ARITH_INPLACE \in flags) =>
       \E g \in Garbage :
         heap[ret].array =
           BinaryValues(pre, flags \ {GAL_DATA_ARITH_INPLACE},
                        arg.l, arg.r, g)

\* C25: data_arithmetic_binary_function_f frees no dataset more than once
\* and does not free the dataset it returns, whatever the flags, also when
\* l and r are the same dataset.
C25_BinaryNoDoubleFree ==
  fn = "binary" =>
    /\ \A x \in DOMAIN heap : heap[x].freed <= 1
    /\ pc = "done" => heap[ret].freed = 0

\* C26: the loops of the not, unary, binary and where functions read and
\* write no element of a dataset that has no element.
C26_EmptyNotAccessed ==
  fn \in {"not", "unary", "binary", "where"} =>
    \A a \in acc : heap[a.h].size # 0

\* fits() is working on the lists of HDUs.
OnHduLists ==
  fn = "fits" /\ arg.mode = FITS_MODE_HDU /\ ~ arg.alone

\* C27: with quitonerror off, an HDU of the --cut list is deleted from the
\* input file only when the call that copied it just before has worked.
C27_CutDeletesOnlyCopied ==
  (OnHduLists /\ ~ arg.quitonerror) =>
    \A i \in DOMAIN files.log :
      (files.log[i].list = "cut" /\ files.log[i].call = "delete"
         /\ files.log[i].ok) =>
        /\ i > 1
        /\ files.log[i - 1] = [call |-> "copy", list |-> "cut",
                               hdu |-> files.log[i].hdu, ok |-> TRUE]

\* The calls that working on a list makes: a copy for every HDU of --copy,
\* a copy and a delete for every HDU of --cut, a delete for every HDU of
\* --remove.
PlanOf(list, hdus) ==
  IF list = "cut"
  THEN [i \in 1..(2 * Len(hdus)) |->
          [call |-> IF i % 2 = 1 THEN "copy" ELSE "delete",
           list |-> list, hdu |-> hdus[(i + 1) \div 2]]]
  ELSE [i \in 1..Len(hdus) |->
          [call |-> IF list = "copy" THEN "copy" ELSE "delete",
           list |-> list, hdu |-> hdus[i]]]

Plan ==
  PlanOf("copy", arg.copy) \o PlanOf("cut", arg.cut)
    \o PlanOf("remove", arg.remove)

\* The calls made so far, without their results.
Made ==
  [i \in DOMAIN files.log |->
     [call |-> files.log[i].call, list |-> files.log[i].list,
      hdu |-> files.log[i].hdu]]

IsPrefix(s, t) == Len(s) <= Len(t) /\ s = SubSeq(t, 1, Len(s))

SomeCallFailed == \E i \in DOMAIN files.log : ~ files.log[i].ok

Produced(v) ==
  LET one == OneSpecifier(v, <<>>, arg.allcols, arg.numcols, arg.searchin)
  IN  {one.indexll[k] : k \in 1..Len(one.indexll)}

\* The numbers of a set in increasing order.
RECURSIVE Ascending(_)
Ascending(S) ==
  IF S = {} THEN <<>>
  ELSE LET least == CHOOSE x \in S : \A y \in S : x <= y
       IN  <<least>> \o Ascending(S \ {least})

\* The indexes of the specifiers from position p on: those of an earlier
\* specifier before those of a later one, those of one specifier ascending.
RECURSIVE InOrderOfCols(_)
InOrderOfCols(p) ==
  IF p > Len(arg.cols) THEN <<>>
  ELSE Ascending(Produced(arg.cols[p])) \o InOrderOfCols(p + 1)

\* C29: the list make_list_of_indexs returns is in the order of the
\* specifiers in cols: the indexes of the specifier at position p come
\* before those of every specifier at a position q > p, and the indexes of
\* one regular-expression or exact-match specifier are in increasing
\* column order.
C29_OrderOfSpecifiers ==
  (fn = "make_list_of_indexs" /\ pc = "done") => ret = InOrderOfCols(1)

\* A regular expression that matches two columns, followed by a specifier
\* for a column before the last one matched: the list is not sorted as a
\* whole, only within a specifier.
C29_Witness ==
  /\ fn = "make_list_of_indexs" /\ pc = "done"
  /\ Len(arg.cols) = 2 /\ IsRegex(arg.cols[1])
  /\ Len(ret) = 3 /\ ret[1] < ret[2] /\ ret[3] < ret[2]

\* The specifier is read by strtol to its end, and is no regular expression.
ParsesAsInteger(v) == ~ IsRegex(v) /\ Strtol(v).tail = Len(v) + 1

\* The index an integer specifier stands for, the columns found by name
\* or regular expression for any other.
RECURSIVE IntegersByNumber(_)
IntegersByNumber(p) ==
  IF p > Len(arg.cols) THEN <<>>
  ELSE (IF ParsesAsInteger(arg.cols[p])
        THEN <<Strtol(arg.cols[p]).value - 1>>
        ELSE Ascending(Produced(arg.cols[p]))) \o IntegersByNumber(p + 1)

\* The first specifier that makes the function abort is an integer
\* outside 1..numcols (an earlier specifier may abort for searchin).
SomeIntegerOutOfRange ==
  \E p \in 1..Len(arg.cols) :
    /\ ParsesAsInteger(arg.cols[p])
    /\ Strtol(arg.cols[p]).value \notin 1..arg.numcols
    /\ \A q \in 1..(p - 1) :
         OneSpecifier(arg.cols[q], <<>>, arg.allcols, arg.numcols,
                      arg.searchin).err = ""

\* C30: a specifier that parses completely as an integer n adds exactly
\* the index n - 1 when 1 <= n <= numcols and makes the function abort
\* otherwise; it is never looked up as a column name, and every index of
\* the returned list is in 0..numcols-1.
C30_IntegerSpecifiers ==
  (fn = "make_list_of_indexs" /\ pc \in {"done", "exit"}) =>
    /\ SomeIntegerOutOfRange => pc = "exit"
    /\ pc = "done" =>
         /\ ret = IntegersByNumber(1)
         /\ \A k \in 1..Len(ret) : ret[k] \in 0..(arg.numcols - 1)

\* The same for the integers that are not zero.
C30_NonZeroIntegers ==
  (/\ fn = "make_list_of_indexs" /\ pc \in {"done", "exit"}
   /\ \A p \in 1..Len(arg.cols) :
        ParsesAsInteger(arg.cols[p]) => Strtol(arg.cols[p]).value # 0) =>
    C30_IntegerSpecifiers

====
